---------------------------- MODULE Spec2Model ----------------------------
(***************************************************************************)
(* A model of cldfzenodo: the DOI normalizer, the Record constructor, the  *)
(* GithubRepos descriptor and Record.download (src/cldfzenodo/record.py),  *)
(* the Zenodo API client with its page-cursor iteration and the GitHub     *)
(* release lookup (src/cldfzenodo/api.py), and the token-cursor iteration  *)
(* of the OAI-PMH feed (src/cldfzenodo/util.py, src/cldfzenodo/oai.py).    *)
(*                                                                         *)
(* Python strings are modelled as sequences of one-character strings, so   *)
(* that parsing and formatting are computed and not assumed.  Python's     *)
(* None is the distinguished value None below.  Assertions are modelled as *)
(* enabled (the test-suite expects AssertionError).                        *)
(***************************************************************************)
EXTENDS Integers, Sequences, FiniteSets, TLC

(***************************************************************************)
(* Bounds of the model.                                                    *)
(***************************************************************************)
\* longest numeric record id
MaxDigits == 2
\* the page size the Api instances are constructed with
PageSize == 2
\* the number of pages the server holds (later pages are empty)
MaxPages == 2
\* the number of versions the server holds for a concept
MaxVersions == 2
\* the number of Results.next() calls followed on one cursor
MaxCalls == 3
\* the number of Api.records calls followed per community name
MaxResolve == 2

(***************************************************************************)
(* Strings.                                                                *)
(***************************************************************************)
None == <<"None">>

Digits == {"0", "1", "2", "3", "4", "5", "6", "7", "8", "9"}

Letters == {"a", "b", "c", "d", "e", "g", "h", "i", "l", "m", "n", "o",
            "p", "r", "s", "t", "u", "v", "x", "z"}

\* urllib.parse.scheme_chars
SchemeChars == Letters \cup Digits \cup {"+", "-", "."}

Take(s, n) == SubSeq(s, 1, n)

Drop(s, n) == SubSeq(s, n + 1, Len(s))

StartsWith(s, p) == Len(s) >= Len(p) /\ Take(s, Len(p)) = p

\* str.find for a set of characters: the first index >= from holding one of
\* them, 0 when there is none
FindAny(s, cs, from) ==
    LET hits == {i \in from..Len(s) : s[i] \in cs}
    IN  IF hits = {} THEN 0 ELSE CHOOSE i \in hits : \A j \in hits : i <= j

S_http == <<"h", "t", "t", "p">>
S_https == <<"h", "t", "t", "p", "s">>
S_sep == <<":", "/", "/">>
S_doi_org == <<"d", "o", "i", ".", "o", "r", "g">>
S_zenodo_org == <<"z", "e", "n", "o", "d", "o", ".", "o", "r", "g">>
S_example_com == <<"e", "x", "a", "m", "p", "l", "e", ".", "c", "o", "m">>
S_doi_path == <<"/", "d", "o", "i", "/">>
S_record_path == <<"/", "r", "e", "c", "o", "r", "d", "/">>
S_records_path == <<"/", "r", "e", "c", "o", "r", "d", "s", "/">>

S_zenodo_doi == <<"1", "0", ".", "5", "2", "8", "1", "/",
                  "z", "e", "n", "o", "d", "o", ".">>
S_other_doi == <<"1", "0", ".", "1", "2", "3", "4", "/", "x">>
S_doi_scheme == <<"d", "o", "i", ":">>

(***************************************************************************)
(* Results of calls: a returned value, or the exception raised.            *)
(***************************************************************************)
Ret(v) == [err |-> "", val |-> v]

Raise(e) == [err |-> e, val |-> None]

\* before any call
NotCalled == Raise("NotCalled")

(***************************************************************************)
(* urllib.parse.urlparse, as far as get_doi reads its result: the scheme   *)
(* (letters first, then scheme characters, up to the first colon), the     *)
(* network location (after a leading //, up to the next /, ? or #) and the *)
(* path (up to the first ? or #).                                          *)
(***************************************************************************)
urlparse(url) ==
    LET i == FindAny(url, {":"}, 1)
        hasScheme == /\ i > 1
                     /\ url[1] \in Letters
                     /\ \A k \in 1..(i - 1) : url[k] \in SchemeChars
        rest == IF hasScheme THEN Drop(url, i) ELSE url
        hasNetloc == StartsWith(rest, <<"/", "/">>)
        delim == FindAny(rest, {"/", "?", "#"}, 3)
        netloc == IF ~hasNetloc THEN <<>>
                  ELSE IF delim = 0 THEN Drop(rest, 2)
                  ELSE SubSeq(rest, 3, delim - 1)
        rest2 == IF ~hasNetloc THEN rest
                 ELSE IF delim = 0 THEN <<>>
                 ELSE Drop(rest, delim - 1)
        q == FindAny(rest2, {"?", "#"}, 1)
    IN  [scheme |-> IF hasScheme THEN Take(url, i - 1) ELSE <<>>,
         netloc |-> netloc,
         path |-> IF q = 0 THEN rest2 ELSE Take(rest2, q - 1)]

\* get_doi with the assertion on the network location left out
get_doi_unchecked(doi_or_url) ==
    LET url == urlparse(doi_or_url)
    IN  IF url.netloc = <<>> THEN Ret(url.path) ELSE Ret(Drop(url.path, 1))

get_doi(doi_or_url) ==
    LET url == urlparse(doi_or_url)
    IN  IF url.netloc = <<>> THEN Ret(url.path)
        ELSE IF url.netloc # S_doi_org THEN Raise("AssertionError")
        ELSE Ret(Drop(url.path, 1))

\* re.match in place of re.fullmatch: a prefix of the string matches
matches_re_prefix(doi) ==
    /\ StartsWith(doi, S_zenodo_doi)
    /\ Len(doi) > Len(S_zenodo_doi)
    /\ doi[Len(S_zenodo_doi) + 1] \in Digits

\* attr.validators.matches_re(r'10\.5281/zenodo\.[0-9]+'): a full match
matches_re(doi) ==
    /\ StartsWith(doi, S_zenodo_doi)
    /\ Len(doi) > Len(S_zenodo_doi)
    /\ \A k \in (Len(S_zenodo_doi) + 1)..Len(doi) : doi[k] \in Digits

\* ZENODO_DOI_FORMAT.format(recid)
ZENODO_DOI_FORMAT(recid) == S_zenodo_doi \o recid

(***************************************************************************)
(* Record (record.py): the attrs-generated constructor runs the converters *)
(* in attribute order, then the validators, then __attrs_post_init__.      *)
(***************************************************************************)
\* Python truthiness of an optional string
Truthy(s) == s # None /\ s # <<>>

\* Record.download_url
download_url(download_urls) ==
    IF download_urls # <<>> THEN download_urls[1] ELSE None

\* __attrs_post_init__ without its assertion
attrs_post_init_unchecked(download_urls, closed_access) == TRUE

\* Record.__attrs_post_init__: TRUE when it returns, FALSE when the
\* assertion fails
attrs_post_init(download_urls, closed_access) ==
    IF ~Truthy(download_url(download_urls)) THEN closed_access ELSE TRUE

\* Record(doi=..., title=..., download_urls=..., closed_access=...)
Record(doi, download_urls, closed_access) ==
    LET d == get_doi(doi)
    IN  IF d.err # "" THEN Raise(d.err)
        ELSE IF ~matches_re(d.val) THEN Raise("ValueError")
        ELSE IF ~attrs_post_init(download_urls, closed_access)
             THEN Raise("AssertionError")
        ELSE Ret([doi |-> d.val,
                  download_urls |-> download_urls,
                  closed_access |-> closed_access])

(***************************************************************************)
(* The inputs followed: identifiers in every form the documentation names, *)
(* and strings that are no identifier.                                     *)
(***************************************************************************)
IdDigits == {"1", "7"}

RECURSIVE DigitStrings(_)
DigitStrings(n) ==
    IF n = 0 THEN {<<>>}
    ELSE LET shorter == DigitStrings(n - 1)
         IN  shorter \cup {Append(s, d) : s \in {t \in shorter : Len(t) = n - 1},
                                          d \in IdDigits}

RecIds == DigitStrings(MaxDigits) \ {<<>>}

Forms == {"bare", "resolver", "resolver_http", "archive_doi",
          "archive_record", "archive_records", "other_host", "doi_scheme",
          "no_scheme", "query", "trailing"}

Form(f, n) ==
    CASE f = "bare" -> ZENODO_DOI_FORMAT(n)
      [] f = "resolver" ->
            S_https \o S_sep \o S_doi_org \o <<"/">> \o ZENODO_DOI_FORMAT(n)
      [] f = "resolver_http" ->
            S_http \o S_sep \o S_doi_org \o <<"/">> \o ZENODO_DOI_FORMAT(n)
      [] f = "archive_doi" ->
            S_https \o S_sep \o S_zenodo_org \o S_doi_path \o ZENODO_DOI_FORMAT(n)
      [] f = "archive_record" ->
            S_https \o S_sep \o S_zenodo_org \o S_record_path \o n
      [] f = "archive_records" ->
            S_https \o S_sep \o S_zenodo_org \o S_records_path \o n
      [] f = "other_host" ->
            S_http \o S_sep \o S_example_com \o <<"/">> \o ZENODO_DOI_FORMAT(n)
      [] f = "doi_scheme" -> S_doi_scheme \o ZENODO_DOI_FORMAT(n)
      [] f = "no_scheme" ->
            <<"/", "/">> \o S_doi_org \o <<"/">> \o ZENODO_DOI_FORMAT(n)
      [] f = "query" ->
            S_https \o S_sep \o S_doi_org \o <<"/">> \o ZENODO_DOI_FORMAT(n)
                \o <<"?", "x">>
      [] f = "trailing" -> ZENODO_DOI_FORMAT(n) \o <<"x">>

\* the forms the documentation accepts
AcceptedForms == {"bare", "resolver", "archive_doi", "archive_record",
                  "archive_records"}

ArchiveForms == {"archive_doi", "archive_record", "archive_records"}

DoiInputs ==
    {Form(f, n) : f \in Forms, n \in RecIds}
        \cup {<<"x">>, <<>>, S_other_doi, S_zenodo_doi,
              S_http \o S_sep \o S_example_com,
              S_https \o S_sep \o S_doi_org}

S_url1 == <<"a", ".", "z", "i", "p">>
S_url2 == <<"b", ".", "t", "x", "t">>

DownloadUrlLists == {<<>>, <<S_url1>>, <<S_url1, S_url2>>, <<<<>>>>,
                     <<<<>>, S_url1>>}

(***************************************************************************)
(* The archive, as the client sees it: the hits of the one query followed, *)
(* page by page.  A page past the last one is empty.                       *)
(***************************************************************************)
S_v1 == <<"v", "1">>

\* the version tags of the hits; a hit may carry none
VersionTags == {None, <<"1">>, S_v1, <<"v", "v", "1">>}

Hit(n, v) == [id |-> n, version |-> v]

RECURSIVE SumTo(_, _)
SumTo(cs, k) == IF k = 0 THEN 0 ELSE cs[k] + SumTo(cs, k - 1)

\* pages holding cs[1], cs[2], ... hits; the hits are numbered in server order
PagesOfCounts(cs) ==
    [p \in 1..Len(cs) |->
        [i \in 1..cs[p] |-> Hit(SumTo(cs, p - 1) + i, S_v1)]]

\* the hits of vs cut into full pages
PagesOfVersions(vs) ==
    [p \in 1..((Len(vs) + PageSize - 1) \div PageSize) |->
        [i \in 1..(IF p * PageSize <= Len(vs) THEN PageSize
                   ELSE Len(vs) - (p - 1) * PageSize) |->
            Hit((p - 1) * PageSize + i, vs[(p - 1) * PageSize + i])]]

RECURSIVE SeqsUpTo(_, _)
SeqsUpTo(S, n) ==
    IF n = 0 THEN {<<>>}
    ELSE LET shorter == SeqsUpTo(S, n - 1)
         IN  shorter \cup {Append(t, x) : t \in {u \in shorter : Len(u) = n - 1},
                                          x \in S}

PagesByCount == {PagesOfCounts(cs) : cs \in SeqsUpTo(0..PageSize, MaxPages)}

PagesByVersion == {PagesOfVersions(vs) : vs \in SeqsUpTo(VersionTags, MaxVersions)}

\* community names; "" stands for no community (None)
CommunityNames == {"lexibank", "cldf-datasets"}

CommunityIds == {1, 2}

\* what urlopen raises when a request fails
Failures == {"HTTPError", "URLError"}

\* how the requests of one call end: the communities request (its outcome
\* and the ids of its hits) and the records request, which is only made
\* when the first one answered with a hit
Outcomes ==
    {o \in [comm : {"ok"} \cup Failures,
            ids : {<<>>} \cup {<<i>> : i \in CommunityIds},
            rec : {"ok"} \cup Failures] :
        (o.comm # "ok" \/ o.ids = <<>>) => (o.ids = <<>> /\ o.rec = "ok")}

OkOutcome == [comm |-> "ok", ids |-> <<1>>, rec |-> "ok"]

(***************************************************************************)
(* State.                                                                  *)
(*   doiIn, doiOut   the argument of a get_doi call and its result         *)
(*   recIn, rec      the arguments of a Record(...) call and its result    *)
(*   pages           the archive's hits                                    *)
(*   communities     Api.__communities__, the cache of community ids       *)
(*   resolves        per community name, the resolution requests issued    *)
(*   cur             the Results cursor in use                             *)
(*   gen             the generator iter_records returned                   *)
(*   yielded         the records the generator has yielded                 *)
(*   pulled          the result of the last pull or next() call            *)
(*   calls           the next() calls on the cursor: page asked, outcome   *)
(*   requests        the HTTP requests issued since the cursor or the call *)
(*                   was made                                              *)
(*   apiIn, apiOut   the last direct call of the Api and its result        *)
(*   ghIn, ghOut     the argument of GithubRepos.from_url and its result   *)
(*   commIn, commOut the arguments of a Record(..., communities=...) call  *)
(*                   and its result                                        *)
(*   relIn, relOut   a get_github_release_info call (its arguments and the *)
(*                   output of the gh commands) and its result             *)
(*   dl              a Record.download call: its arguments, its position,  *)
(*                   the fetches made and its result                       *)
(*   dest            the destination directory of the download             *)
(*   dd              a Record.download_dataset call: its arguments, its    *)
(*                   position and its result                               *)
(*   feed            the batches of a token-cursor feed                    *)
(*   it              the generator RecordGenerator.__iter__ returned       *)
(* The arguments of get_doi and Record are drawn in the initial state;     *)
(* None / NoRecordArgs mean that the call is not made.                     *)
(***************************************************************************)
VARIABLES doiIn, doiOut, recIn, rec,
          pages, communities, resolves, cur, gen, yielded, pulled, calls,
          requests, apiIn, apiOut,
          ghIn, ghOut, commIn, commOut, relIn, relOut, dl, dest, feed, it, dd

recordVars == <<doiIn, doiOut, recIn, rec>>

apiVars == <<pages, communities, resolves, cur, gen, yielded, pulled, calls,
             requests, apiIn, apiOut>>

\* GithubRepos, the communities of a Record, the release info
pureVars == <<ghIn, ghOut, commIn, commOut, relIn, relOut>>

\* Record.download and the token-cursor iteration
moreVars == <<pureVars, dl, dest, feed, it, dd>>

vars == <<recordVars, apiVars, moreVars>>

(***************************************************************************)
(* Api and Results (api.py).                                               *)
(***************************************************************************)
ServerPage(p) == IF p \in 1..Len(pages) THEN pages[p] ELSE <<>>

Request(what, id, page) == [what |-> what, id |-> id, page |-> page]

\* self.__communities__[community] = id
Put(cache, community, id) ==
    [c \in DOMAIN cache \cup {community} |->
        IF c = community THEN id ELSE cache[c]]

\* `community not in self.__communities__`, never true: resolve on every call
needs_resolution_always(cache, community) == community # ""

\* Api.records: whether the community id has to be looked up
needs_resolution(cache, community) ==
    community # "" /\ community \notin DOMAIN cache

\* Api.records(community=..., params={page: ...}): the cache afterwards, the
\* requests issued and the exception raised, if any
records(cache, community, page, out) ==
    LET resolve == needs_resolution(cache, community)
        lookup == <<Request("communities", 0, 0)>>
    IN  IF resolve /\ out.comm # "ok"
        THEN [cache |-> cache, requests |-> lookup, err |-> out.comm]
        ELSE IF resolve /\ out.ids = <<>>
        THEN [cache |-> cache, requests |-> lookup, err |-> "IndexError"]
        ELSE LET cache2 == IF resolve THEN Put(cache, community, out.ids[1])
                           ELSE cache
                 scope == IF community # "" THEN cache2[community] ELSE 0
             IN  [cache |-> cache2,
                  requests |-> (IF resolve THEN lookup ELSE <<>>)
                                   \o <<Request("records", scope, page)>>,
                  err |-> IF out.rec = "ok" THEN "" ELSE out.rec]

\* Record.from_dict, for the fields followed here
from_dict(hit) == [id |-> hit.id, version |-> hit.version]

\* no record: the None a lookup returns
NoRec == [id |-> 0, version |-> None]

\* Results.__init__
NewCursor(owner, community) ==
    [owner |-> owner, community |-> community, page |-> 0, more |-> TRUE,
     error |-> ""]

NoCursor == NewCursor("none", "")

\* the HTTPError handler without the decrement of the page counter
except_HTTPError_no_rollback(c, page) ==
    [c EXCEPT !.error = "HTTPError", !.page = page]

\* Results.next, the handler of urllib.error.HTTPError: the cursor it leaves
except_HTTPError(c, page) ==
    [c EXCEPT !.error = "HTTPError", !.page = page - 1]

\* more pages only after a page with more hits than the page size
more_pages_strict(hits) == Len(hits) > PageSize

\* Results.next: self.more
more_pages(hits) == Len(hits) >= PageSize

\* Results.next() on cursor c
ResultsNext(c, cache, out) ==
    LET page == c.page + 1
        r == records(cache, c.community, page, out)
        hits == ServerPage(page)
    IN  IF r.err = "HTTPError"
        THEN [cur |-> except_HTTPError(c, page), cache |-> r.cache,
              requests |-> r.requests, page |-> page, ret |-> Raise(r.err)]
        ELSE IF r.err # ""
        THEN [cur |-> [c EXCEPT !.page = page], cache |-> r.cache,
              requests |-> r.requests, page |-> page, ret |-> Raise(r.err)]
        ELSE [cur |-> [c EXCEPT !.page = page, !.more = more_pages(hits)],
              cache |-> r.cache, requests |-> r.requests, page |-> page,
              ret |-> Ret([i \in 1..Len(hits) |-> from_dict(hits[i])])]

\* the resolution requests among rs
Lookups(rs) == Len(SelectSeq(rs, LAMBDA r : r.what = "communities"))

\* a call naming `community` is followed while its resolution requests are
\* within the bound
ResolveAllowed(community) ==
    needs_resolution(communities, community)
        => resolves[community] < MaxResolve

\* the effect of the requests of a call on the cache and the logs
Issue(community, cache, rs) ==
    /\ communities' = cache
    /\ resolves' = IF Lookups(rs) > 0
                   THEN [resolves EXCEPT ![community] = @ + Lookups(rs)]
                   ELSE resolves
    /\ requests' = requests \o rs

\* the generator fetches one record early: while one is still buffered
resume_fetches_early(pc, buf, more) ==
    pc = "created" \/ (pc = "suspended" /\ Len(buf) <= 1 /\ more)

\* Api.iter_records: whether resuming the generator calls res.next() before
\* it yields: on the first pull, and when the list of `yield from` is
\* exhausted and res.more holds
resume_fetches(pc, buf, more) ==
    pc = "created" \/ (pc = "suspended" /\ buf = <<>> /\ more)

NoGen == [pc |-> "none", community |-> "", buf |-> <<>>]

\* the generator stays resumable after an exception has left it
exception_leaves_resumable(g) == [g EXCEPT !.pc = "suspended", !.buf = <<>>]

\* Api.iter_records, a generator function: an exception raised by
\* res.next() inside `yield from res.next()` leaves the generator, which is
\* finished from then on
exception_leaves(g) == [g EXCEPT !.pc = "finished", !.buf = <<>>]

\* res = api.iter_records(community=...): nothing of the body runs yet
IterRecords(community) ==
    /\ gen' = [pc |-> "created", community |-> community, buf |-> <<>>]
    /\ cur' = NoCursor
    /\ yielded' = <<>>
    /\ pulled' = NotCalled
    /\ calls' = <<>>
    /\ requests' = <<>>
    /\ UNCHANGED <<pages, communities, resolves, apiIn, apiOut, recordVars,
                   moreVars>>

\* next(res) on the generator: the body runs up to its next yield, its end
\* or an exception
Pull(out) ==
    /\ gen.pc \in {"created", "suspended", "finished"}
    /\ LET c0 == IF gen.pc = "created"
                 THEN NewCursor("generator", gen.community) ELSE cur
           fetch == gen.pc # "finished" /\ resume_fetches(gen.pc, gen.buf, c0.more)
           n == ResultsNext(c0, communities, out)
           buf == IF fetch /\ n.ret.err = "" THEN gen.buf \o n.ret.val
                  ELSE gen.buf
       IN  /\ fetch => ResolveAllowed(gen.community)
           /\ IF fetch
              THEN /\ cur' = n.cur
                   /\ calls' = Append(calls, [page |-> n.page, err |-> n.ret.err])
                   /\ Issue(gen.community, n.cache, n.requests)
              ELSE /\ cur' = c0
                   /\ UNCHANGED <<calls, communities, resolves, requests>>
           /\ IF fetch /\ n.ret.err # ""
              THEN /\ gen' = exception_leaves(gen)
                   /\ pulled' = Raise(n.ret.err)
                   /\ UNCHANGED yielded
              ELSE IF gen.pc # "finished" /\ buf # <<>>
              THEN /\ gen' = [gen EXCEPT !.pc = "suspended", !.buf = Tail(buf)]
                   /\ pulled' = Ret(Head(buf))
                   /\ yielded' = Append(yielded, Head(buf))
              ELSE /\ gen' = [gen EXCEPT !.pc = "finished", !.buf = <<>>]
                   /\ pulled' = Raise("StopIteration")
                   /\ UNCHANGED yielded
    /\ UNCHANGED <<pages, apiIn, apiOut, recordVars, moreVars>>

\* res = Results(api, community=...), made by the caller itself
NewResults(community) ==
    /\ cur' = NewCursor("caller", community)
    /\ gen' = NoGen
    /\ yielded' = <<>>
    /\ pulled' = NotCalled
    /\ calls' = <<>>
    /\ requests' = <<>>
    /\ UNCHANGED <<pages, communities, resolves, apiIn, apiOut, recordVars,
                   moreVars>>

\* res.next(), called by the caller itself
CallNext(out) ==
    /\ cur.owner = "caller"
    /\ Len(calls) < MaxCalls
    /\ ResolveAllowed(cur.community)
    /\ LET n == ResultsNext(cur, communities, out)
       IN  /\ cur' = n.cur
           /\ calls' = Append(calls, [page |-> n.page, err |-> n.ret.err])
           /\ Issue(cur.community, n.cache, n.requests)
           /\ pulled' = n.ret
           /\ yielded' = IF n.ret.err = "" THEN yielded \o n.ret.val ELSE yielded
    /\ UNCHANGED <<pages, gen, apiIn, apiOut, recordVars, moreVars>>

\* api.records(community=...), called by the caller itself
RecordsCall(api, community, out) ==
    /\ ResolveAllowed(community)
    /\ LET r == records(communities, community, 0, out)
       IN  /\ apiIn' = [op |-> "records", api |-> api, community |-> community,
                        doi |-> None, conceptdoi |-> None, version |-> None]
           /\ apiOut' = IF r.err = "" THEN Ret(NoRec) ELSE Raise(r.err)
           /\ communities' = r.cache
           /\ resolves' = IF Lookups(r.requests) > 0
                          THEN [resolves EXCEPT ![community] = @ + 1]
                          ELSE resolves
           /\ requests' = r.requests
    /\ cur' = NoCursor
    /\ gen' = NoGen
    /\ yielded' = <<>>
    /\ pulled' = NotCalled
    /\ calls' = <<>>
    /\ UNCHANGED <<pages, recordVars, moreVars>>

\* str.lstrip('v'): every leading v is dropped
RECURSIVE lstrip_v(_)
lstrip_v(s) == IF s # <<>> /\ Head(s) = "v" THEN lstrip_v(Tail(s)) ELSE s

\* Api._first_record
first_record(hits) == IF hits # <<>> THEN from_dict(hits[1]) ELSE NoRec

\* get_record, the body of its loop over the records of one page:
\* the first record of recs, from index i on, whose version matches;
\* rec.version.lstrip raises AttributeError when the version is None
RECURSIVE first_match(_, _, _)
first_match(recs, i, version) ==
    IF i > Len(recs) THEN Ret(NoRec)
    ELSE IF recs[i].version = None THEN Raise("AttributeError")
    ELSE IF lstrip_v(recs[i].version) = lstrip_v(version) THEN Ret(recs[i])
    ELSE first_match(recs, i + 1, version)

\* get_record, its loop over iter_records(conceptdoi=..., allversions=True):
\* the pages are fetched one by one (the request for page failAt fails with
\* `kind`) until a record matches or the generator ends
RECURSIVE scan_versions(_, _, _, _, _)
scan_versions(c, version, failAt, kind, rs) ==
    LET out == IF c.page + 1 = failAt THEN [OkOutcome EXCEPT !.rec = kind]
               ELSE OkOutcome
        n == ResultsNext(c, communities, out)
        m == first_match(n.ret.val, 1, version)
    IN  IF n.ret.err # ""
        THEN [ret |-> Raise(n.ret.err), requests |-> rs \o n.requests]
        ELSE IF m.err # "" \/ m.val # NoRec
        THEN [ret |-> m, requests |-> rs \o n.requests]
        ELSE IF n.cur.more
        THEN scan_versions(n.cur, version, failAt, kind, rs \o n.requests)
        ELSE [ret |-> Ret(NoRec), requests |-> rs \o n.requests]

\* the assertion `assert not conceptdoi` left out
assert_not_conceptdoi_dropped(conceptdoi) == TRUE

\* Api.get_record: `assert not conceptdoi`, TRUE when it passes
assert_not_conceptdoi(conceptdoi) == ~Truthy(conceptdoi)

\* a single records request and the first record of its answer
lookup_first(failAt, kind) ==
    [ret |-> IF failAt = 1 THEN Raise(kind) ELSE Ret(first_record(ServerPage(1))),
     requests |-> <<Request("records", 0, 0)>>]

\* Api.get_record(doi, conceptdoi, version)
get_record(doi, conceptdoi, version, failAt, kind) ==
    IF Truthy(doi)
    THEN IF get_doi(doi).err # ""
         THEN [ret |-> Raise(get_doi(doi).err), requests |-> <<>>]
         ELSE IF ~assert_not_conceptdoi(conceptdoi)
         THEN [ret |-> Raise("AssertionError"), requests |-> <<>>]
         ELSE lookup_first(failAt, kind)
    ELSE IF ~Truthy(conceptdoi)
    THEN [ret |-> Raise("AssertionError"), requests |-> <<>>]
    ELSE IF get_doi(conceptdoi).err # ""
    THEN [ret |-> Raise(get_doi(conceptdoi).err), requests |-> <<>>]
    ELSE IF ~Truthy(version)
    THEN lookup_first(failAt, kind)
    ELSE scan_versions(NewCursor("generator", ""), version, failAt, kind, <<>>)

\* the arguments get_record is called with
DoiArgs == {None, <<>>, Form("bare", <<"1">>), Form("resolver", <<"1">>),
            Form("archive_records", <<"1">>)}

VersionArgs == {None, <<"1">>, S_v1, <<"2">>}

\* api.get_record(doi=..., conceptdoi=..., version=...), with the arguments
\* of apiIn
GetRecord(failAt, kind) ==
    /\ apiIn.op = "get_record"
    /\ apiOut = NotCalled
    /\ LET r == get_record(apiIn.doi, apiIn.conceptdoi, apiIn.version,
                           failAt, kind)
       IN  /\ apiOut' = r.ret
           /\ requests' = r.requests
    /\ UNCHANGED <<apiIn, pages, communities, resolves, cur, gen, yielded,
                   pulled, calls, recordVars, moreVars>>

(***************************************************************************)
(* GithubRepos (record.py).                                                *)
(***************************************************************************)
\* the longest path, in segments, of the URLs passed to from_url
MaxSegments == 4

S_github_com == <<"g", "i", "t", "h", "u", "b", ".", "c", "o", "m">>
S_tree == <<"t", "r", "e", "e">>
S_org == <<"o", "r", "g">>
S_repo == <<"r", "e", "p", "o">>
S_tag == <<"v", "1", ".", "0">>
S_git == <<".", "g", "i", "t">>
S_zip == <<".", "z", "i", "p">>
S_archive_refs_tags ==
    <<"/", "a", "r", "c", "h", "i", "v", "e", "/", "r", "e", "f", "s", "/",
      "t", "a", "g", "s", "/">>

\* str.split(sep)
RECURSIVE split(_, _)
split(s, sep) ==
    LET i == FindAny(s, {sep}, 1)
    IN  IF i = 0 THEN <<s>>
        ELSE <<Take(s, i - 1)>> \o split(Drop(s, i), sep)

\* no descriptor: the None from_url returns, and Record.github_repos unset
NoRepos == [org |-> None, name |-> None, tag |-> None]

\* the tag is read whatever the segment before it is
tag_of_any_segment(path) == IF Len(path) > 4 THEN path[5] ELSE None

\* GithubRepos.from_url: the tag argument, path being url.path.split('/')
tag_of(path) ==
    IF Len(path) > 4 /\ path[4] = S_tree THEN path[5] ELSE None

\* GithubRepos.from_url; path[1] and path[2] of the code are the second and
\* third element here, and raise IndexError when the path is too short
from_url(url) ==
    LET u == urlparse(url)
        path == split(u.path, "/")
    IN  IF u.netloc # S_github_com THEN Ret(NoRepos)
        ELSE IF Len(path) < 3 THEN Raise("IndexError")
        ELSE Ret([org |-> path[2], name |-> path[3], tag |-> tag_of(path)])

\* GithubRepos.clone_url
clone_url(g) ==
    S_https \o S_sep \o S_github_com \o <<"/">> \o g.org \o <<"/">> \o g.name
        \o S_git

\* GithubRepos.release_url
release_url(g) ==
    IF Truthy(g.tag)
    THEN S_https \o S_sep \o S_github_com \o <<"/">> \o g.org \o <<"/">>
            \o g.name \o S_archive_refs_tags \o g.tag \o S_zip
    ELSE None

\* the URL https://<host>/<segs[1]>/<segs[2]>/...
RECURSIVE JoinPath(_)
JoinPath(segs) ==
    IF segs = <<>> THEN <<>> ELSE <<"/">> \o Head(segs) \o JoinPath(Tail(segs))

GhUrl(host, segs) == S_https \o S_sep \o host \o JoinPath(segs)

\* the paths of the URLs passed to from_url, as lists of segments
GhPaths ==
    SeqsUpTo({<<>>, S_org, S_tree, S_tag}, MaxSegments)
        \cup {<<S_org, S_repo>>, <<S_org, S_repo, S_tree>>,
              <<S_org, S_repo, S_tree, S_tag>>, <<S_org, S_repo, <<"b", "l", "o", "b">>, S_tag>>,
              <<S_org, S_repo, S_tree, <<>>>>,
              <<S_org, S_repo, S_tree, S_tag, S_org>>}

\* the URLs passed to from_url: each path on the source host and on another
GhInputs ==
    {GhUrl(h, segs) : h \in {S_github_com, S_example_com}, segs \in GhPaths}
        \cup {S_http \o S_sep \o S_example_com,
              S_http \o S_sep \o S_github_com \o JoinPath(<<S_org, S_repo>>),
              S_github_com \o JoinPath(<<S_org, S_repo>>)}

\* the call GithubRepos.from_url(ghIn), followed by the reads of clone_url
\* and release_url the caller makes on a descriptor
FromUrl ==
    /\ ghIn # None
    /\ ghOut.err = "NotCalled"
    /\ LET r == from_url(ghIn)
           g == r.val
       IN  ghOut' = IF r.err # "" \/ r.val.org = None
                    THEN [err |-> r.err, val |-> NoRepos,
                          clone_url |-> None, release_url |-> None]
                    ELSE [err |-> "", val |-> g,
                          clone_url |-> clone_url(g),
                          release_url |-> release_url(g)]
    /\ UNCHANGED <<ghIn, commIn, commOut, relIn, relOut, dl, dest, feed, it,
                   dd, recordVars, apiVars>>

GhNotCalled ==
    [err |-> "NotCalled", val |-> NoRepos, clone_url |-> None,
     release_url |-> None]

(***************************************************************************)
(* Record.communities (record.py): the converter of the attribute.         *)
(***************************************************************************)
\* the longest list of communities passed to the constructor
MaxCommunities == 3

\* only None is dropped: `if i is not None`
communities_converter_not_none(l) == SelectSeq(l, LAMBDA i : i # None)

\* converter=lambda l: [i for i in l if i]
communities_converter(l) == SelectSeq(l, LAMBDA i : Truthy(i))

\* Record(doi=..., title='', download_urls=..., closed_access=...,
\*        communities=..., github_repos=...)
RecordWith(args) ==
    LET r == Record(args.doi, args.download_urls, args.closed_access)
    IN  IF r.err # "" THEN [err |-> r.err]
        ELSE [err |-> "",
              val |-> [doi |-> r.val.doi,
                       download_urls |-> r.val.download_urls,
                       closed_access |-> r.val.closed_access,
                       communities |-> communities_converter(args.communities),
                       github_repos |-> args.github_repos]]

\* the constructor's arguments; an entry of communities is what
\* id_from_zenodo_url and the JSON of a hit deliver: None, '', a name
CommunityArgs ==
    [doi : {Form("bare", <<"1">>), Form("archive_record", <<"1">>)},
     download_urls : {<<S_url1>>},
     closed_access : {FALSE},
     communities : SeqsUpTo({None, <<>>, <<"l", "e", "x">>, <<"d", "i", "c">>},
                             MaxCommunities),
     github_repos : {NoRepos}]

NoCommunityArgs ==
    [doi |-> None, download_urls |-> <<>>, closed_access |-> FALSE,
     communities |-> <<>>, github_repos |-> NoRepos]

\* the call Record(..., communities=commIn.communities)
ConstructWithCommunities ==
    /\ commIn.doi # None
    /\ commOut.err = "NotCalled"
    /\ commOut' = RecordWith(commIn)
    /\ UNCHANGED <<commIn, ghIn, ghOut, relIn, relOut, dl, dest, feed, it,
                   dd, recordVars, apiVars>>

(***************************************************************************)
(* Api.get_github_release_info (api.py).  The output of the gh commands is *)
(* text; the two patterns are searched in it as re does.                   *)
(***************************************************************************)
\* the number of characters of s from index i on that are digits
RECURSIVE DigitsRun(_, _)
DigitsRun(s, i) ==
    IF i <= Len(s) /\ s[i] \in Digits THEN 1 + DigitsRun(s, i + 1) ELSE 0

\* version_pattern, v[0-9]+\.[0-9]+(\.[0-9]+)?, matched at index i: the index
\* of the last character of the match, 0 when there is no match
version_end(s, i) ==
    LET d1 == DigitsRun(s, i + 1)
        dot1 == i + 1 + d1
        d2 == DigitsRun(s, dot1 + 1)
        dot2 == dot1 + 1 + d2
        d3 == DigitsRun(s, dot2 + 1)
    IN  IF ~(i <= Len(s) /\ s[i] = "v" /\ d1 > 0) THEN 0
        ELSE IF ~(dot1 <= Len(s) /\ s[dot1] = "." /\ d2 > 0) THEN 0
        ELSE IF dot2 <= Len(s) /\ s[dot2] = "." /\ d3 > 0 THEN dot2 + d3
        ELSE dot1 + d2

\* version_pattern.search(latest): group 'tag' of the first match, or None
version_search(s) ==
    LET starts == {i \in 1..Len(s) : version_end(s, i) > 0}
        first == CHOOSE i \in starts : \A j \in starts : i <= j
    IN  IF starts = {} THEN None ELSE SubSeq(s, first, version_end(s, first))

S_doi_url == S_https \o S_sep \o S_doi_org \o <<"/">>

\* doi_pattern, https://doi\.org/(10\.5281/zenodo\.[0-9]+), matched at i
doi_end(s, i) ==
    LET lit == S_doi_url \o S_zenodo_doi
        d == DigitsRun(s, i + Len(lit))
    IN  IF i + Len(lit) - 1 <= Len(s) /\ SubSeq(s, i, i + Len(lit) - 1) = lit
           /\ d > 0
        THEN i + Len(lit) - 1 + d ELSE 0

\* `for match in doi_pattern.finditer(info): pass`: group 'doi' of the last
\* match, or None
doi_last(s) ==
    LET starts == {i \in 1..Len(s) : doi_end(s, i) > 0}
        last == CHOOSE i \in starts : \A j \in starts : i >= j
    IN  IF starts = {} THEN None
        ELSE SubSeq(s, last + Len(S_doi_url), doi_end(s, last))

\* str.replace('/', '_')
replace_slash(s) == [i \in 1..Len(s) |-> IF s[i] = "/" THEN "_" ELSE s[i]]

NoBib == [id |-> None, edition |-> None, type |-> None]

\* the quadruple returned, and the records requests made
Quad(tag, doi, cit, bib, n) ==
    [err |-> "", tag |-> tag, doi |-> doi, cit |-> cit, bib |-> bib,
     requests |-> n]

RaiseQuad(e, n) ==
    [err |-> e, tag |-> None, doi |-> None, cit |-> None, bib |-> NoBib,
     requests |-> n]

\* without a DOI nothing is returned, the tag neither
no_doi_result_all_none(tag) == Quad(None, None, None, NoBib, 0)

\* get_github_release_info, its last line: return tag, None, None, None
no_doi_result(tag) == Quad(tag, None, None, NoBib, 0)

\* Api.get_github_release_info(repos, tag, bibid); `latest` and `view` are
\* what gh answers to `release list` and `release view` (check_output
\* raises CalledProcessError when gh fails), and the records request number
\* failAt fails
get_github_release_info(repos, tag, bibid, latest, view, failAt) ==
    LET found == version_search(latest)
        tag2 == IF Truthy(tag) THEN tag ELSE found
        doi == doi_last(view.text)
        bib == [id |-> IF Truthy(bibid) THEN bibid ELSE replace_slash(repos),
                edition |-> tag2, type |-> <<"D", "a", "t", "a", " ", "s", "e", "t">>]
    IN  IF ~Truthy(tag) /\ latest = <<>> THEN Quad(None, None, None, NoBib, 0)
        ELSE IF ~Truthy(tag) /\ found = None THEN RaiseQuad("AssertionError", 0)
        ELSE IF ~view.ok THEN RaiseQuad("CalledProcessError", 0)
        ELSE IF doi = None THEN no_doi_result(tag2)
        ELSE IF failAt = 1 THEN RaiseQuad("HTTPError", 1)
        ELSE IF failAt = 2 THEN RaiseQuad("HTTPError", 2)
        ELSE Quad(tag2, doi, <<"c", "i", "t">>, bib, 2)

\* the arguments of a call and what gh answers.  `gh release list -L 1`
\* prints nothing, a line with a v-tag, a line with two, or a line with a
\* tag that is no v-tag; `gh release view` fails or prints a description:
\* without a link, with one, with two, with a DOI of another archive, with
\* an http link.  A repository without a release has none to view.
ReleaseArgs ==
    LET DoiUrl(n) == S_doi_url \o ZENODO_DOI_FORMAT(n)
        LatestTexts ==
            {<<>>,
             S_tag \o <<" ", "L">>,
             <<"r", " ", "v", "2", ".", "1", ".", "3", " ">> \o S_tag,
             <<"2", ".", "0">>}
        ViewTexts ==
            {<<"n", "o">>,
             <<"s", " ">> \o DoiUrl(<<"1">>) \o <<".">>,
             DoiUrl(<<"1">>) \o <<" ">> \o DoiUrl(<<"7", "1">>),
             S_doi_url \o S_other_doi,
             S_http \o S_sep \o S_doi_org \o <<"/">> \o ZENODO_DOI_FORMAT(<<"1">>)}
        ViewOutputs ==
            {[ok |-> FALSE, text |-> <<>>]}
                \cup {[ok |-> TRUE, text |-> t] : t \in ViewTexts}
    IN  {a \in [repos : {S_org \o <<"/">> \o S_repo}, tag : {None, <<>>, S_tag},
                bibid : {None, <<"x">>}, latest : LatestTexts,
                view : ViewOutputs] :
            a.latest = <<>> => ~a.view.ok}

NoReleaseArgs ==
    [repos |-> None, tag |-> None, bibid |-> None, latest |-> <<>>,
     view |-> [ok |-> FALSE, text |-> <<>>]]

\* the call api.get_github_release_info(relIn.repos, relIn.tag, relIn.bibid)
GetGithubReleaseInfo(failAt) ==
    /\ relIn.repos # None
    /\ relOut.err = "NotCalled"
    /\ relOut' = get_github_release_info(relIn.repos, relIn.tag, relIn.bibid,
                                         relIn.latest, relIn.view, failAt)
    /\ UNCHANGED <<relIn, ghIn, ghOut, commIn, commOut, dl, dest, feed, it,
                   dd, recordVars, apiVars>>

(***************************************************************************)
(* Record.download (record.py).  The destination directory is the set of   *)
(* its entries, each a path relative to it and a kind; an archive is the   *)
(* set of entries extractall creates.                                      *)
(***************************************************************************)
Entry(path, dir) == [path |-> path, dir |-> dir]

\* pathlib: PurePath(path).name
path_name(path) ==
    LET segs == split(path, "/") IN segs[Len(segs)]

\* pathlib: PurePath.suffix, from the last dot of the name on, unless the
\* dot starts or ends the name
path_suffix(name) ==
    LET dots == {i \in 1..Len(name) : name[i] = "."}
        i == CHOOSE k \in dots : \A j \in dots : k >= j
    IN  IF dots = {} THEN <<>>
        ELSE IF i > 1 /\ i < Len(name) THEN Drop(name, i - 1) ELSE <<>>

\* the top-level entries of a directory
Top(entries) == {e \in entries : Len(e.path) = 1}

\* the entries directly inside the top-level directory wn
Inside(entries, wn) == {e \in entries : Len(e.path) = 2 /\ e.path[1] = wn}

\* shutil.move(dest/wn/c, dest): c and what is below it go one level up
move_up(entries, wn, c) ==
    {IF Len(e.path) >= 2 /\ e.path[1] = wn /\ e.path[2] = c
     THEN Entry(Tail(e.path), e.dir) ELSE e : e \in entries}

RECURSIVE move_all(_, _, _)
move_all(entries, wn, cs) ==
    IF cs = {} THEN entries
    ELSE LET c == CHOOSE x \in cs : TRUE
         IN  move_all(move_up(entries, wn, c), wn, cs \ {c})

\* zipfile.ZipFile(...).extractall(path=dest)
extractall(entries, archive) == entries \cup archive

\* dest.joinpath(urlpath.name).write_bytes(...)
write_bytes(entries, name) == entries \cup {Entry(<<name>>, FALSE)}

\* urllib.request.urlopen, by the status the server answers with (0: no
\* answer): a response is returned for 2xx, HTTPError is raised otherwise
urlopen(status) ==
    IF status = 0 THEN Raise("URLError")
    ELSE IF status >= 200 /\ status < 300 THEN Ret(status)
    ELSE Raise("HTTPError")

\* Record._download: `if res.code == 200`
unpacks(code) == code = 200

\* Record._download(url, dest) when the server answers with `status` and,
\* for a zip, the archive `archive`
download_one(entries, url, status, archive) ==
    LET name == path_name(urlparse(url).path)
        res == urlopen(status)
    IN  IF res.err # "" THEN [err |-> res.err, entries |-> entries]
        ELSE IF ~unpacks(res.val) THEN [err |-> "", entries |-> entries]
        ELSE IF path_suffix(name) = S_zip
        THEN [err |-> "", entries |-> extractall(entries, archive)]
        ELSE [err |-> "", entries |-> write_bytes(entries, name)]

\* Record.download: the URLs it fetches
sources(record) ==
    IF record.github_repos.org # None /\ release_url(record.github_repos) # None
    THEN <<release_url(record.github_repos)>>
    ELSE record.download_urls

\* Record.download: the content of the inner directory moved to dest and the
\* inner directory removed
unwrapped(entries, wn) ==
    move_all(entries, wn, {e.path[2] : e \in Inside(entries, wn)})
        \ {Entry(<<wn>>, TRUE)}

\* Record.download: `if is_empty and len(inner) == 1 and inner[0].is_dir()`
unwraps(is_empty, entries) ==
    /\ is_empty
    /\ Cardinality(Top(entries)) = 1
    /\ \A e \in Top(entries) : e.dir

\* the destination does not exist
NoDir == [exists |-> FALSE, entries |-> {}]

\* the records downloaded: constructed ones (without download URLs they are
\* closed access); the download URLs are a zip, a plain file and a text file
DownloadRecords ==
    LET U_host == S_https \o S_sep \o S_zenodo_org
        U_zip == U_host \o <<"/", "r">> \o S_zip
        U_file == U_host \o <<"/", "f", "/", "a">>
        U_txt == U_host \o <<"/", "b", ".", "t", "x", "t">>
    IN
    {RecordWith([doi |-> Form("bare", <<"1">>), download_urls |-> us,
                 closed_access |-> (us = <<>>), communities |-> <<>>,
                 github_repos |-> g]).val :
        us \in {<<>>, <<U_zip>>, <<U_file>>, <<U_zip, U_txt>>, <<U_txt, U_zip>>},
        g \in {NoRepos, from_url(GhUrl(S_github_com, <<S_org, S_repo>>)).val,
               from_url(GhUrl(S_github_com, <<S_org, S_repo, S_tree, S_tag>>)).val}}

\* no keyword argument besides dest is passed
NoKeywords == [unwrap |-> "unset", prefer_github |-> "unset"]

\* a download call: its arguments, its position (called, fetching, done), the
\* destination as found, is_empty, the URLs still to fetch, the fetches made
\* (URL, status answered, exception, whether dest changed), the destination
\* before the unwrapping, and the exception raised
NewDownload(record, kw, d) ==
    [pc |-> "called", rec |-> record, kw |-> kw, dest0 |-> d, is_empty |-> FALSE,
     todo |-> <<>>, log |-> <<>>, before |-> {}, err |-> ""]

NoDownload ==
    [pc |-> "none", rec |-> [doi |-> None, download_urls |-> <<>>,
                             closed_access |-> TRUE, communities |-> <<>>,
                             github_repos |-> NoRepos],
     kw |-> NoKeywords, dest0 |-> NoDir, is_empty |-> FALSE,
     todo |-> <<>>, log |-> <<>>, before |-> {}, err |-> ""]

\* the destination is not created
mkdir_skipped(d) == d

\* Record.download: `if not dest.exists(): dest.mkdir()`
mkdir(d) == [d EXCEPT !.exists = TRUE]

\* rec.download(dest, ...) up to its first fetch: download(self, dest,
\* log=None) takes no other keyword (TypeError), notes whether dest is empty,
\* creates it, and raises ValueError without download URLs
DownloadCall ==
    /\ dl.pc = "called"
    /\ IF dl.kw # NoKeywords
       THEN /\ dl' = [dl EXCEPT !.pc = "done", !.err = "TypeError"]
            /\ UNCHANGED dest
       ELSE /\ dest' = mkdir(dest)
            /\ IF dl.rec.download_urls = <<>>
               THEN dl' = [dl EXCEPT !.pc = "done", !.err = "ValueError",
                              !.is_empty = (~dest.exists \/ dest.entries = {})]
               ELSE dl' = [dl EXCEPT !.pc = "fetching",
                              !.is_empty = (~dest.exists \/ dest.entries = {}),
                              !.todo = sources(dl.rec)]
    /\ UNCHANGED <<pureVars, feed, it, dd, recordVars, apiVars>>

\* one call of self._download(url, dest); an exception of urlopen leaves
\* download
Fetch(status, archive) ==
    /\ dl.pc = "fetching"
    /\ dl.todo # <<>>
    /\ LET url == Head(dl.todo)
           r == download_one(dest.entries, url, status, archive)
       IN  /\ dest' = [dest EXCEPT !.entries = r.entries]
           /\ dl' = [dl EXCEPT
                        !.log = Append(@, [url |-> url, status |-> status,
                                           err |-> r.err,
                                           changed |-> r.entries # dest.entries]),
                        !.todo = Tail(@),
                        !.pc = IF r.err # "" THEN "done" ELSE @,
                        !.err = r.err]
    /\ UNCHANGED <<pureVars, feed, it, dd, recordVars, apiVars>>

\* the rest of download after the last fetch: the inner directory is
\* unwrapped; shutil.move raises Error when dest already has an entry of the
\* name moved, which is the case for an entry named as the inner directory
\* (the entries `moved` were moved before it, iterdir being in any order)
DownloadReturn(moved) ==
    /\ dl.pc = "fetching"
    /\ dl.todo = <<>>
    /\ LET inner == Top(dest.entries)
           wn == (CHOOSE e \in inner : TRUE).path[1]
           names == {e.path[2] : e \in Inside(dest.entries, wn)}
       IN  IF ~unwraps(dl.is_empty, dest.entries)
           THEN /\ moved = {}
                /\ dl' = [dl EXCEPT !.pc = "done", !.before = dest.entries]
                /\ UNCHANGED dest
           ELSE IF wn \in names
           THEN /\ moved \subseteq names \ {wn}
                /\ dl' = [dl EXCEPT !.pc = "done", !.before = dest.entries,
                             !.err = "Error"]
                /\ dest' = [dest EXCEPT !.entries = move_all(@, wn, moved)]
           ELSE /\ moved = {}
                /\ dl' = [dl EXCEPT !.pc = "done", !.before = dest.entries]
                /\ dest' = [dest EXCEPT !.entries = unwrapped(@, wn)]
    /\ UNCHANGED <<pureVars, feed, it, dd, recordVars, apiVars>>

(***************************************************************************)
(* Record.download_dataset (record.py).  The scratch directory made by     *)
(* tempfile.TemporaryDirectory is the directory `dest` that download is    *)
(* called on; the dataset locator iter_datasets and the condition are the  *)
(* caller's and pycldf's, and are modelled by their outcomes.              *)
(***************************************************************************)
\* the number of datasets the locator finds in the scratch directory
MaxDatasets == 2

NoDatasetCall ==
    [pc |-> "none", rec |-> NoDownload.rec, condition |-> "none",
     scratch |-> NoDir, ret |-> "", err |-> ""]

\* the scratch directory is only removed when the block is left by return
exit_TemporaryDirectory_on_return(scratch, err) ==
    IF err = "" THEN NoDir ELSE scratch

\* `with tempfile.TemporaryDirectory() as tmpdirname`, left with or without
\* an exception: __exit__ removes the directory and what it holds
exit_TemporaryDirectory(scratch, err) == NoDir

\* download_dataset, its loop over iter_datasets(...): the first dataset
\* for which `(condition is None) or condition(ds)` holds is copied and
\* returned, None is returned without one; conds[i] is what the condition
\* answers for dataset i
RECURSIVE first_dataset(_, _, _, _)
first_dataset(condition, conds, i, copy) ==
    IF i > Len(conds) THEN [ret |-> "None", err |-> ""]
    ELSE IF condition # "none" /\ conds[i] = "raises"
    THEN [ret |-> "", err |-> "ConditionError"]
    ELSE IF condition = "none" \/ conds[i] = "True"
    THEN IF copy = "ok" THEN [ret |-> "dataset", err |-> ""]
         ELSE [ret |-> "", err |-> "CopyError"]
    ELSE first_dataset(condition, conds, i + 1, copy)

\* rec.download_dataset(dest, condition=...) up to its call of download: the
\* scratch directory is made and self.download(tmpdirname, log=log) called
DownloadDataset ==
    /\ dd.pc = "called"
    /\ dest' = [exists |-> TRUE, entries |-> {}]
    /\ dl' = NewDownload(dd.rec, NoKeywords, dest')
    /\ dd' = [dd EXCEPT !.pc = "downloading"]
    /\ UNCHANGED <<pureVars, feed, it, recordVars, apiVars>>

\* the rest of download_dataset once download has returned or raised: an
\* exception of download leaves the block; otherwise the locator raises or
\* finds Len(conds) datasets among the files of the scratch directory
DatasetReturn(locator, conds, copy) ==
    /\ dd.pc = "downloading"
    /\ dl.pc = "done"
    /\ Len(conds) <= Cardinality({e \in dest.entries : ~e.dir})
    /\ LET r == IF dl.err # "" THEN [ret |-> "", err |-> dl.err]
                ELSE IF locator = "raises"
                THEN [ret |-> "", err |-> "LocatorError"]
                ELSE first_dataset(dd.condition, conds, 1, copy)
       IN  /\ dd' = [dd EXCEPT !.pc = "done", !.scratch = dest,
                               !.ret = r.ret, !.err = r.err]
           /\ dest' = exit_TemporaryDirectory(dest, r.err)
    /\ UNCHANGED <<dl, pureVars, feed, it, recordVars, apiVars>>

(***************************************************************************)
(* Token-cursor iteration (util.py, oai.py, search.py).  The feed is the    *)
(* sequence of its batches; batch i+1 is what the server answers to the    *)
(* continuation token of batch i.  A batch without a resumptionToken       *)
(* element has the token None, one with an empty element the token "".     *)
(***************************************************************************)
\* the number of batches of a feed
MaxBatches == 3
\* the number of records of a batch
MaxBatchSize == 2

\* the token the server puts into batch i
Tok(i) == <<"t", ToString(i)>>

Batch(recs, token) == [records |-> recs, token |-> token]

NoBatch == Batch(<<>>, None)

\* the feeds: batch i has sizes[i] records, numbered in feed order, and
\* carries no token element, an empty one, or its own token; the last batch
\* has no token
Feeds ==
    LET TokenOf(kind, i) ==
            CASE kind = "none" -> None
              [] kind = "empty" -> <<>>
              [] kind = "token" -> Tok(i)
        FeedOf(sizes, kinds) ==
            [i \in 1..Len(sizes) |->
                Batch([j \in 1..sizes[i] |-> SumTo(sizes, i - 1) + j],
                      TokenOf(kinds[i], i))]
    IN  UNION {{FeedOf(sizes, kinds) :
                  sizes \in [1..n -> 0..MaxBatchSize],
                  kinds \in {k \in [1..n -> {"none", "empty", "token"}] :
                               k[n] # "token"}} :
               n \in 1..MaxBatches}

\* from_params(resumptionToken=token): the batch the server answers with
Serve(token) ==
    LET ks == {k \in 1..(Len(feed) - 1) : feed[k].token = token}
    IN  IF ks = {} THEN NoBatch ELSE feed[(CHOOSE k \in ks : TRUE) + 1]

\* the token of the first batch is resubmitted: self.next()
resubmit_first(first, current) == first.token

\* RecordGenerator.__iter__: `next = next.next()`, the token resubmitted
\* is the one of the batch just consumed
resubmit(first, current) == current.token

\* OAIXML.next: `if rt:`
has_next(token) == Truthy(token)

\* RecordGenerator.__iter__ resumed with nothing left to yield from the
\* current batch: batches are fetched until one has a record or none
\* follows.  `fuel` bounds the fetches followed.
RECURSIVE advance(_, _, _, _)
advance(first, current, fetches, fuel) ==
    LET token == resubmit(first, current)
        next == Serve(token)
    IN  IF ~has_next(token)
        THEN [current |-> current, buf |-> <<>>, fetches |-> fetches,
              pc |-> "finished"]
        ELSE IF fuel = 0
        THEN [current |-> current, buf |-> <<>>, fetches |-> fetches,
              pc |-> "running"]
        ELSE IF next.records # <<>>
        THEN [current |-> next, buf |-> next.records,
              fetches |-> Append(fetches, token), pc |-> "suspended"]
        ELSE advance(first, next, Append(fetches, token), fuel - 1)

NoIter ==
    [pc |-> "none", first |-> NoBatch, current |-> NoBatch, buf |-> <<>>,
     yielded |-> <<>>, fetches |-> <<>>]

\* gen = iter(OAIXML.from_params(...)): the first batch is fetched by
\* from_params, nothing of __iter__ runs yet
FromParams ==
    /\ it.pc = "none"
    /\ feed # <<>>
    /\ it' = [pc |-> "created", first |-> feed[1], current |-> feed[1],
              buf |-> feed[1].records, yielded |-> <<>>,
              fetches |-> <<None>>]
    /\ UNCHANGED <<feed, pureVars, dl, dest, dd, recordVars, apiVars>>

\* next(gen): the generator runs to its next yield or to its end
NextRecord ==
    /\ it.pc \in {"created", "suspended"}
    /\ LET a == IF it.buf # <<>>
                THEN [current |-> it.current, buf |-> it.buf,
                      fetches |-> it.fetches, pc |-> "suspended"]
                ELSE advance(it.first, it.current, it.fetches,
                             MaxBatches + 1)
       IN  it' = [it EXCEPT !.pc = a.pc, !.current = a.current,
                            !.buf = IF a.buf = <<>> THEN <<>> ELSE Tail(a.buf),
                            !.fetches = a.fetches,
                            !.yielded = IF a.buf = <<>> THEN @
                                        ELSE Append(@, Head(a.buf))]
    /\ UNCHANGED <<feed, pureVars, dl, dest, dd, recordVars, apiVars>>

\* nothing of the calls above is made
PureIdle ==
    /\ ghIn = None
    /\ ghOut = GhNotCalled
    /\ commIn = NoCommunityArgs
    /\ commOut = [err |-> "NotCalled"]
    /\ relIn = NoReleaseArgs
    /\ relOut = RaiseQuad("NotCalled", 0)

DownloadIdle == dl = NoDownload /\ dest = NoDir /\ dd = NoDatasetCall

TokensIdle == feed = <<>> /\ it = NoIter

MoreIdle == PureIdle /\ DownloadIdle /\ TokensIdle

(***************************************************************************)
(* Initial states and specifications.                                      *)
(***************************************************************************)
NoRecordArgs == [doi |-> None, download_urls |-> <<>>, closed_access |-> FALSE]

RecordArgs ==
    [doi : DoiInputs, download_urls : DownloadUrlLists, closed_access : BOOLEAN]

NoApiCall == [op |-> "none", api |-> 0, community |-> "", doi |-> None,
              conceptdoi |-> None, version |-> None]

\* no call of get_doi or Record is to be made
RecordIdle ==
    /\ doiIn = None
    /\ doiOut = NotCalled
    /\ recIn = NoRecordArgs
    /\ rec = NotCalled

\* a fresh process: the module-level cache is empty, nothing is in use
ApiIdle ==
    /\ communities = <<>>
    /\ resolves = [c \in CommunityNames |-> 0]
    /\ cur = NoCursor
    /\ gen = NoGen
    /\ yielded = <<>>
    /\ pulled = NotCalled
    /\ calls = <<>>
    /\ requests = <<>>
    /\ apiOut = NotCalled

ApiInit == ApiIdle /\ apiIn = NoApiCall

RecordInit ==
    /\ doiOut = NotCalled
    /\ rec = NotCalled
    /\ \/ doiIn \in DoiInputs /\ recIn = NoRecordArgs
       \/ doiIn = None /\ recIn \in RecordArgs
    /\ pages = <<>>
    /\ ApiInit
    /\ MoreIdle

\* the call get_doi(doiIn)
Normalize ==
    /\ doiIn # None
    /\ doiOut = NotCalled
    /\ doiOut' = get_doi(doiIn)
    /\ UNCHANGED <<doiIn, recIn, rec, apiVars, moreVars>>

\* the call Record(doi=..., title='', download_urls=..., closed_access=...)
Construct ==
    /\ recIn.doi # None
    /\ rec = NotCalled
    /\ rec' = Record(recIn.doi, recIn.download_urls, recIn.closed_access)
    /\ UNCHANGED <<doiIn, doiOut, recIn, apiVars, moreVars>>

RecordNext == Normalize \/ Construct

SpecRecord == RecordInit /\ [][RecordNext]_vars

Apis == {1, 2}

PagesInit ==
    /\ RecordIdle
    /\ pages \in PagesByCount
    /\ ApiInit
    /\ MoreIdle

PagesNext ==
    \/ \E c \in {"", "lexibank"} : IterRecords(c)
    \/ \E out \in Outcomes : Pull(out)
    \/ \E c \in {"", "lexibank"} : NewResults(c)
    \/ \E out \in Outcomes : CallNext(out)

\* page-cursor iteration
SpecPages == PagesInit /\ [][PagesNext]_vars

ApiCallsInit ==
    /\ RecordIdle
    /\ pages = <<>>
    /\ ApiInit
    /\ MoreIdle

ApiNext ==
    \E a \in Apis, c \in CommunityNames \cup {""}, out \in Outcomes :
        RecordsCall(a, c, out)

\* sequences of Api.records calls
SpecApi == ApiCallsInit /\ [][ApiNext]_vars

GetRecordArgs ==
    [op : {"get_record"}, api : {1}, community : {""}, doi : DoiArgs,
     conceptdoi : DoiArgs, version : VersionArgs]

GetRecordInit ==
    /\ RecordIdle
    /\ pages \in PagesByVersion
    /\ ApiIdle
    /\ apiIn \in GetRecordArgs
    /\ MoreIdle

GetRecordNext ==
    \E failAt \in 0..(MaxVersions + 1), kind \in Failures :
        GetRecord(failAt, kind)

\* Api.get_record, for every archive content and argument followed
SpecGetRecord == GetRecordInit /\ [][GetRecordNext]_vars

\* nothing of the record and Api parts is in use
RestIdle == RecordIdle /\ pages = <<>> /\ ApiInit

GithubInit ==
    /\ RestIdle
    /\ ghIn \in GhInputs
    /\ ghOut = GhNotCalled
    /\ commIn = NoCommunityArgs
    /\ commOut = [err |-> "NotCalled"]
    /\ relIn = NoReleaseArgs
    /\ relOut = RaiseQuad("NotCalled", 0)
    /\ DownloadIdle
    /\ TokensIdle

GithubNext == FromUrl

\* GithubRepos.from_url, for every URL followed
SpecGithub == GithubInit /\ [][GithubNext]_vars

CommunitiesInit ==
    /\ RestIdle
    /\ ghIn = None
    /\ ghOut = GhNotCalled
    /\ commIn \in CommunityArgs
    /\ commOut = [err |-> "NotCalled"]
    /\ relIn = NoReleaseArgs
    /\ relOut = RaiseQuad("NotCalled", 0)
    /\ DownloadIdle
    /\ TokensIdle

CommunitiesNext == ConstructWithCommunities

\* Record(..., communities=...), for every list followed
SpecCommunities == CommunitiesInit /\ [][CommunitiesNext]_vars

ReleaseInit ==
    /\ RestIdle
    /\ ghIn = None
    /\ ghOut = GhNotCalled
    /\ commIn = NoCommunityArgs
    /\ commOut = [err |-> "NotCalled"]
    /\ relIn \in ReleaseArgs
    /\ relOut = RaiseQuad("NotCalled", 0)
    /\ DownloadIdle
    /\ TokensIdle

ReleaseNext == \E failAt \in 0..2 : GetGithubReleaseInfo(failAt)

\* Api.get_github_release_info, for every output of gh followed
SpecRelease == ReleaseInit /\ [][ReleaseNext]_vars

\* the destination before the call is absent, empty, holds a file, or holds
\* a directory
DownloadInit ==
    /\ RestIdle
    /\ PureIdle
    /\ TokensIdle
    /\ dd = NoDatasetCall
    /\ dest \in {NoDir,
                 [exists |-> TRUE, entries |-> {}],
                 [exists |-> TRUE, entries |-> {Entry(<<<<"p">>>>, FALSE)}],
                 [exists |-> TRUE,
                  entries |-> {Entry(<<<<"w">>>>, TRUE),
                               Entry(<<<<"w">>, <<"q">>>>, FALSE)}]}
    /\ \E r \in DownloadRecords,
          kw \in [unwrap : {"unset", "True", "False"},
                  prefer_github : {"unset", "False"}] :
           dl = NewDownload(r, kw, dest)

\* the server answers with a status (0: no answer) and, for a zip, an
\* archive: a wrapper with two files, two files, a wrapper with an entry of
\* its own name, an empty wrapper, a wrapper with a directory
DownloadNext ==
    \/ DownloadCall
    \/ \E status \in {0, 200, 204, 404},
          archive \in
            {{Entry(<<<<"w">>>>, TRUE), Entry(<<<<"w">>, <<"a">>>>, FALSE),
              Entry(<<<<"w">>, <<"b">>>>, FALSE)},
             {Entry(<<<<"a">>>>, FALSE), Entry(<<<<"b">>>>, FALSE)},
             {Entry(<<<<"w">>>>, TRUE), Entry(<<<<"w">>, <<"w">>>>, FALSE),
              Entry(<<<<"w">>, <<"a">>>>, FALSE)},
             {Entry(<<<<"w">>>>, TRUE)},
             {Entry(<<<<"w">>>>, TRUE), Entry(<<<<"w">>, <<"d">>>>, TRUE),
              Entry(<<<<"w">>, <<"d">>, <<"a">>>>, FALSE)}} :
           Fetch(status, archive)
    \/ \E moved \in SUBSET {<<"w">>, <<"a">>, <<"b">>, <<"d">>} : DownloadReturn(moved)

\* Record.download, for every record, destination and server followed
SpecDownload == DownloadInit /\ [][DownloadNext]_vars

DatasetInit ==
    /\ RestIdle
    /\ PureIdle
    /\ TokensIdle
    /\ dl = NoDownload
    /\ dest = NoDir
    /\ \E r \in DownloadRecords, c \in {"none", "given"} :
           dd = [NoDatasetCall EXCEPT !.pc = "called", !.rec = r,
                                      !.condition = c]

DatasetNext ==
    \/ DownloadDataset
    \/ DownloadNext
    \/ \E locator \in {"ok", "raises"},
          conds \in SeqsUpTo({"True", "False", "raises"}, MaxDatasets),
          copy \in {"ok", "raises"} :
           DatasetReturn(locator, conds, copy)

\* Record.download_dataset, for every record, server and locator followed
SpecDataset == DatasetInit /\ [][DatasetNext]_vars

TokensInit ==
    /\ RestIdle
    /\ PureIdle
    /\ DownloadIdle
    /\ feed \in Feeds
    /\ it = NoIter

TokensNext == FromParams \/ NextRecord

\* RecordGenerator.__iter__ over every feed followed
SpecTokens == TokensInit /\ [][TokensNext]_vars

(***************************************************************************)
(* The error kinds of the documentation, as the exceptions the code raises *)
(***************************************************************************)
\* get_doi's assertion and the validator of Record.doi
InvalidIdentifier == {"AssertionError", "ValueError"}

(***************************************************************************)
(* Claims about get_doi and Record.                                        *)
(***************************************************************************)
\* C1: an identifier given in any accepted form (bare, resolver URL, archive
\* /doi/ URL, archive /record/ or /records/ URL) normalizes to the same bare
\* identifier 10.5281/zenodo.<n>.
C1_AllFormsNormalize ==
    \A f \in AcceptedForms, n \in RecIds :
        (doiIn = Form(f, n) /\ doiOut # NotCalled)
            => doiOut = Ret(ZENODO_DOI_FORMAT(n))

\* C2: get_doi of a URL whose network location is neither the archive nor
\* the resolver fails with the InvalidIdentifier kind and returns nothing.
C2_OtherHostFails ==
    (/\ doiIn # None
     /\ doiOut # NotCalled
     /\ urlparse(doiIn).netloc \notin {<<>>, S_doi_org, S_zenodo_org})
        => (doiOut.err \in InvalidIdentifier /\ doiOut.val = None)

C2_Witness ==
    /\ doiIn = S_http \o S_sep \o S_example_com
    /\ doiOut.err = "AssertionError"

\* C3: a constructed Record has download URLs or is closed access; without
\* download URLs construction fails when closed_access is false and
\* succeeds when it is true.
C3_UrlsOrClosed ==
    (recIn.doi # None /\ rec # NotCalled) =>
        /\ rec.err = "" =>
              (rec.val.download_urls # <<>> \/ rec.val.closed_access)
        /\ (recIn.download_urls = <<>> /\ ~recIn.closed_access) => rec.err # ""
        /\ (/\ recIn.download_urls = <<>>
            /\ recIn.closed_access
            /\ \E n \in RecIds : recIn.doi = Form("bare", n))
              => rec.err = ""

C3_Witness ==
    /\ recIn.doi # None
    /\ recIn.download_urls = <<>>
    /\ recIn.closed_access
    /\ rec.err = ""
    /\ rec.val.download_urls = <<>>

\* C4: construction normalizes the doi argument and then fails unless the
\* result is of the shape 10.5281/zenodo.<digits>; a constructed Record
\* holds the bare identifier of its argument.
C4_DoiNormalizedAndValid ==
    (recIn.doi # None /\ rec # NotCalled) =>
        /\ rec.err = "" =>
              \E n \in RecIds :
                  /\ rec.val.doi = ZENODO_DOI_FORMAT(n)
                  /\ recIn.doi \in {Form(f, n) :
                        f \in {"bare", "resolver", "resolver_http",
                               "doi_scheme", "no_scheme", "query"}}
        /\ \A n \in RecIds :
              (/\ recIn.doi = Form("resolver", n)
               /\ recIn.download_urls # <<>>
               /\ recIn.download_urls[1] # <<>>)
                  => /\ rec.err = ""
                     /\ rec.val = [doi |-> ZENODO_DOI_FORMAT(n),
                                   download_urls |-> recIn.download_urls,
                                   closed_access |-> recIn.closed_access]
        /\ (\A n \in RecIds : get_doi_unchecked(recIn.doi).val # ZENODO_DOI_FORMAT(n))
              => rec.err \in InvalidIdentifier

C4_Witness ==
    /\ recIn.doi # None
    /\ \E n \in RecIds : recIn.doi = Form("resolver", n)
    /\ rec.err = ""
    /\ urlparse(rec.val.doi).netloc = <<>>

\* get_record's assertions on doi and conceptdoi
InvalidArgument == {"AssertionError"}

(***************************************************************************)
(* Claims about the page-cursor iteration (SpecPages).                     *)
(***************************************************************************)
\* the first page with fewer hits than the page size
FirstShort ==
    CHOOSE k \in 1..(Len(pages) + 1) :
        /\ Len(ServerPage(k)) < PageSize
        /\ \A j \in 1..(k - 1) : Len(ServerPage(j)) >= PageSize

\* the hits of pages 1..k in server order
RECURSIVE HitsTo(_)
HitsTo(k) == IF k = 0 THEN <<>> ELSE HitsTo(k - 1) \o ServerPage(k)

IsPrefix(s, t) == Len(s) <= Len(t) /\ s = SubSeq(t, 1, Len(s))

\* the page numbers of the records requests issued, in order
PageRequests ==
    LET rr == SelectSeq(requests, LAMBDA r : r.what = "records")
    IN  [i \in 1..Len(rr) |-> rr[i].page]

NoFailure == \A i \in 1..Len(calls) : calls[i].err = ""

\* the caller has received exception e from the last next() call: as the
\* result of that call or pull, or, pulling again from the generator the
\* exception ended, StopIteration since
Propagated(e) ==
    pulled.err = e \/ (gen.pc = "finished" /\ pulled.err = "StopIteration")

\* C5: over an archive whose pages 1..k-1 are full and whose page k is short,
\* the generator yields the hits of pages 1..k in server order, requests
\* the pages 1, 2, ... and none after k, and then ends.
C5_YieldsPagesThenStops ==
    (gen.pc # "none" /\ NoFailure) =>
        /\ IsPrefix(yielded, HitsTo(FirstShort))
        /\ Len(PageRequests) <= FirstShort
        /\ \A i \in 1..Len(PageRequests) : PageRequests[i] = i
        /\ gen.pc = "finished" =>
              /\ yielded = HitsTo(FirstShort)
              /\ Len(PageRequests) = FirstShort
              /\ pulled.err = "StopIteration"

C5_Witness ==
    /\ gen.pc = "finished"
    /\ NoFailure
    /\ Len(pages) = 2
    /\ Len(pages[1]) = PageSize
    /\ Len(pages[2]) = 1
    /\ Len(yielded) = PageSize + 1
    /\ PageRequests = <<1, 2>>

\* C6 as claimed: whatever transport-level error fails a page fetch, the
\* error reaches the caller and the page counter is back at its value
\* before the call, so that the next call asks for the same page.
C6_AnyFailureRollsBack ==
    \A i \in 1..Len(calls) :
        calls[i].err \in Failures =>
            /\ i = Len(calls) =>
                  (Propagated(calls[i].err) /\ cur.page = calls[i].page - 1)
            /\ i < Len(calls) => calls[i + 1].page = calls[i].page

\* The part of C6 the handler of Results.next does provide: when a page
\* fetch fails with an HTTPError, the error reaches the caller at once and
\* the page counter is back at its value before the call, so that the next
\* call of next() asks for the same page.
C6_HTTPErrorRollsBack ==
    \A i \in 1..Len(calls) :
        calls[i].err = "HTTPError" =>
            /\ i = Len(calls) =>
                  /\ Propagated("HTTPError")
                  /\ cur.page = calls[i].page - 1
                  /\ cur.error = "HTTPError"
            /\ i < Len(calls) => calls[i + 1].page = calls[i].page

C6_Witness ==
    \E i \in 1..(Len(calls) - 1) :
        /\ calls[i].err = "HTTPError"
        /\ calls[i].page = 2
        /\ calls[i + 1].page = 2
        /\ calls[i + 1].err = ""

\* C7: iter_records issues no request when it is called; the first page is
\* asked for by the first pull, and page n+1 only by a pull made after every
\* record of page n was yielded: the pages requested are exactly those
\* needed for the records yielded so far.
C7_LazyPages ==
    /\ gen.pc = "created" => (requests = <<>> /\ cur = NoCursor)
    /\ gen.pc = "suspended" =>
          /\ Len(PageRequests) >= 1
          /\ Len(HitsTo(Len(PageRequests) - 1)) < Len(yielded)
          /\ Len(yielded) <= Len(HitsTo(Len(PageRequests)))
          /\ Len(yielded) + Len(gen.buf) = Len(HitsTo(Len(PageRequests)))

C7_Witness ==
    /\ gen.pc = "suspended"
    /\ Len(yielded) = PageSize + 1
    /\ Len(PageRequests) = 2

(***************************************************************************)
(* Claims about Api.records and its cache (SpecApi).                       *)
(***************************************************************************)
\* the cached ids stay as they are
CacheKept ==
    \A c \in DOMAIN communities :
        c \in DOMAIN communities' /\ communities'[c] = communities[c]

\* C8 as claimed: at most one resolution request is ever issued per
\* community name, and a cached id is never overwritten or removed.
C8_ResolvedAtMostOnce ==
    [][(\A c \in CommunityNames : resolves'[c] <= 1) /\ CacheKept]_vars

\* C8, amended: a resolution request is issued only for a name that is not
\* cached; once a resolution has answered with a hit, the id is cached, no
\* further resolution request is issued for that name, and the cached id is
\* never overwritten or removed.  A resolution that fails or finds nothing
\* caches nothing.
C8_ResolvedOnceCached ==
    [][/\ CacheKept
       /\ \A c \in DOMAIN communities : resolves'[c] = resolves[c]
       /\ \A c \in CommunityNames :
             (c \notin DOMAIN communities /\ c \in DOMAIN communities')
                 => (resolves'[c] = resolves[c] + 1 /\ apiIn'.community = c)
       /\ \A c \in CommunityNames :
             resolves'[c] # resolves[c] => apiIn'.community = c]_vars

C8_Witness ==
    /\ apiIn.op = "records"
    /\ apiIn.community \in DOMAIN communities
    /\ Lookups(requests) = 0
    /\ Len(requests) = 1
    /\ resolves[apiIn.community] = 1

(***************************************************************************)
(* Claims about Api.get_record (SpecGetRecord).                            *)
(***************************************************************************)
\* C9: get_record called with neither or with both of doi and conceptdoi
\* fails with the InvalidArgument kind and issues no request.
C9_ExactlyOneOfDoiConceptdoi ==
    (/\ apiIn.op = "get_record"
     /\ apiOut.err # "NotCalled"
     /\ Truthy(apiIn.doi) = Truthy(apiIn.conceptdoi))
        => (apiOut.err \in InvalidArgument /\ requests = <<>>)

C9_Witness ==
    /\ apiIn.op = "get_record"
    /\ apiIn.doi = Form("bare", <<"1">>)
    /\ apiIn.conceptdoi = Form("bare", <<"1">>)
    /\ apiOut.err = "AssertionError"
    /\ requests = <<>>

\* one leading v dropped
strip_one_v(s) == IF s # <<>> /\ Head(s) = "v" THEN Tail(s) ELSE s

\* the first hit of hs, from index i on, whose version tag equals the
\* version asked for when one leading v is ignored on both sides
RECURSIVE ExpectedMatch(_, _, _)
ExpectedMatch(hs, i, version) ==
    IF i > Len(hs) THEN NoRec
    ELSE IF /\ hs[i].version # None
            /\ strip_one_v(hs[i].version) = strip_one_v(version)
         THEN hs[i]
    ELSE ExpectedMatch(hs, i + 1, version)

\* C10: get_record(conceptdoi, version) returns the first record of the
\* all-versions sequence whose version tag equals the version asked for,
\* one leading v ignored on either side, and None without an error when no
\* version matches (no request failing).
C10_FirstMatchingVersion ==
    (/\ apiIn.op = "get_record"
     /\ ~Truthy(apiIn.doi)
     /\ Truthy(apiIn.conceptdoi)
     /\ Truthy(apiIn.version)
     /\ get_doi(apiIn.conceptdoi).err = ""
     /\ apiOut.err \notin Failures \cup {"NotCalled"})
        => /\ apiOut.err = ""
           /\ apiOut.val = ExpectedMatch(HitsTo(Len(pages)), 1, apiIn.version)

(***************************************************************************)
(* Claims about Record.download (SpecDownload).                            *)
(***************************************************************************)
\* the record has a release URL: a linked repository with a tag
HasRelease(record) ==
    record.github_repos.org # None /\ release_url(record.github_repos) # None

\* the URLs fetched so far, in order
FetchedUrls == [i \in 1..Len(dl.log) |-> dl.log[i].url]

\* urlopen has raised in none of the fetches
NoFetchRaised == \A i \in 1..Len(dl.log) : dl.log[i].err = ""

\* C11: download fails with ValueError (no downloadable resources) exactly
\* when the record has neither download URLs nor a release URL; a record
\* without download URLs but with a tagged release is fetched from the
\* release URL.
C11_FailsOnlyWithoutAnySource ==
    (dl.pc = "done" /\ dl.kw = NoKeywords) =>
        /\ (dl.err = "ValueError")
              <=> (dl.rec.download_urls = <<>> /\ ~HasRelease(dl.rec))
        /\ (dl.rec.download_urls = <<>> /\ HasRelease(dl.rec))
              => (/\ dl.log # <<>>
                  /\ dl.log[1].url = release_url(dl.rec.github_repos))

\* C12: with the release preferred and a release URL, exactly the release
\* URL is fetched; otherwise (no repository, no tag, or preference off)
\* every download URL is fetched once, in list order (the record having
\* download URLs and no fetch failing).
C12_ReleaseOrEveryUrl ==
    (/\ dl.pc = "done"
     /\ NoFetchRaised
     /\ dl.kw.unwrap = "unset"
     /\ dl.rec.download_urls # <<>>) =>
        IF dl.kw.prefer_github # "False" /\ HasRelease(dl.rec)
        THEN FetchedUrls = <<release_url(dl.rec.github_repos)>>
        ELSE FetchedUrls = dl.rec.download_urls

\* C13: a fetch answered with a status other than 200 raises nothing and
\* writes nothing; the other URLs are still fetched and download returns
\* (the server answering every fetch).
C13_Non200IsSkipped ==
    \A i \in 1..Len(dl.log) :
        dl.log[i].status \notin {0, 200} =>
            /\ dl.log[i].err = ""
            /\ ~dl.log[i].changed
            /\ (/\ dl.pc = "done"
                /\ \A j \in 1..Len(dl.log) : dl.log[j].status # 0
                /\ dl.err # "Error")
                  => (dl.err = "" /\ FetchedUrls = sources(dl.rec))

\* the entries of the inner directory wn, as top-level entries
Unwrapped(entries, wn) ==
    {Entry(<<e.path[2]>>, e.dir) : e \in Inside(entries, wn)}

\* C14: when the destination was absent or empty and the fetches left one
\* top-level entry, a directory, download returns with the entries of that
\* directory at top level and the directory gone.
C14_UnwrapsSingleDirectory ==
    (/\ dl.pc = "done"
     /\ dl.kw = NoKeywords
     /\ dl.log # <<>>
     /\ NoFetchRaised
     /\ dl.dest0.entries = {}
     /\ Cardinality(Top(dl.before)) = 1
     /\ \A e \in Top(dl.before) : e.dir)
        => /\ dl.err = ""
           /\ \A w \in Top(dl.before) :
                 Top(dest.entries) = Unwrapped(dl.before, w.path[1])

\* C15: with unwrap false, or a destination that held an entry before the
\* call, download returns with the destination as the fetches left it: the
\* inner directory in place, the earlier entries neither moved nor removed.
C15_NoUnwrapKeepsEntries ==
    (/\ dl.pc = "done"
     /\ NoFetchRaised
     /\ dl.rec.download_urls # <<>>
     /\ dl.kw.prefer_github = "unset"
     /\ (dl.kw.unwrap = "False" \/ dl.dest0.entries # {}))
        => /\ dl.err = ""
           /\ dest.entries = dl.before
           /\ dl.dest0.entries \subseteq dest.entries

(***************************************************************************)
(* Claims about the token-cursor iteration (SpecTokens).                   *)
(***************************************************************************)
\* the first batch that carries no continuation token
LastBatch ==
    CHOOSE k \in 1..Len(feed) :
        /\ ~Truthy(feed[k].token)
        /\ \A j \in 1..(k - 1) : Truthy(feed[j].token)

\* the records of the batches 1..k in feed order
RECURSIVE RecordsTo(_)
RecordsTo(k) == IF k = 0 THEN <<>> ELSE RecordsTo(k - 1) \o feed[k].records

\* C16: the records of each batch fetched are yielded in order; batch j+1 is
\* fetched by resubmitting the token of batch j; the iteration ends at the
\* first batch without a token, and nothing is fetched after it.
C16_TokensInOrderThenStop ==
    it.pc # "none" =>
        /\ it.pc # "running"
        /\ IsPrefix(it.yielded, RecordsTo(LastBatch))
        /\ Len(it.fetches) <= LastBatch
        /\ Len(it.yielded) <= Len(RecordsTo(Len(it.fetches)))
        /\ \A j \in 2..Len(it.fetches) : it.fetches[j] = feed[j - 1].token
        /\ it.pc = "finished" =>
              /\ it.yielded = RecordsTo(LastBatch)
              /\ Len(it.fetches) = LastBatch

C16_Witness ==
    /\ it.pc = "finished"
    /\ Len(feed) = 3
    /\ LastBatch = 3
    /\ Len(it.fetches) = 3
    /\ it.fetches[3] = Tok(2)
    /\ Len(it.yielded) >= 3

(***************************************************************************)
(* Claims about GithubRepos (SpecGithub).                                  *)
(***************************************************************************)
\* the tag a URL names: the segment after <org>/<repo>/tree
TagSegment(segs) ==
    IF Len(segs) >= 4 /\ segs[3] = S_tree /\ segs[4] # <<>> THEN segs[4]
    ELSE None

\* C17: a descriptor parsed from a URL has a tag exactly when the URL has a
\* tree/<tag> segment, always has a clone URL, and has a release URL if and
\* only if it has a tag.
C17_TagCloneRelease ==
    (ghOut.err = "" /\ ghOut.val.org # None) =>
        /\ ghOut.clone_url # None /\ ghOut.clone_url # <<>>
        /\ (ghOut.release_url # None) <=> Truthy(ghOut.val.tag)
        /\ \A segs \in GhPaths :
              ghIn = GhUrl(S_github_com, segs) =>
                  /\ Truthy(ghOut.val.tag) <=> (TagSegment(segs) # None)
                  /\ Truthy(ghOut.val.tag) => ghOut.val.tag = TagSegment(segs)
                  /\ ghOut.clone_url =
                        GhUrl(S_github_com, <<segs[1], segs[2] \o S_git>>)
                  /\ Truthy(ghOut.val.tag) =>
                        ghOut.release_url =
                            GhUrl(S_github_com, <<segs[1], segs[2]>>)
                                \o S_archive_refs_tags \o segs[4] \o S_zip

C17_Witness ==
    /\ ghIn = GhUrl(S_github_com, <<S_org, S_repo, S_tree, S_tag>>)
    /\ ghOut.err = ""
    /\ ghOut.val.tag = S_tag
    /\ ghOut.clone_url # None
    /\ ghOut.release_url # None

\* C18: from_url never raises, and returns no descriptor for a URL on
\* another host or with fewer than two path segments.
C18_FromUrlNeverRaises ==
    ghOut.err # "NotCalled" =>
        /\ ghOut.err = ""
        /\ \A h \in {S_github_com, S_example_com}, segs \in GhPaths :
              (ghIn = GhUrl(h, segs) /\ (h # S_github_com \/ Len(segs) < 2))
                  => ghOut.val = NoRepos

(***************************************************************************)
(* Claims about Record.communities (SpecCommunities).                      *)
(***************************************************************************)
\* the entries of l that are neither None nor empty, in their order
RECURSIVE Kept(_)
Kept(l) ==
    IF l = <<>> THEN <<>>
    ELSE IF Head(l) \in {None, <<>>} THEN Kept(Tail(l))
    ELSE <<Head(l)>> \o Kept(Tail(l))

\* C19: the communities of a constructed Record hold no None and no empty
\* entry; the other entries passed are kept in their order.
C19_CommunitiesFiltered ==
    commOut.err = "" =>
        /\ \A i \in 1..Len(commOut.val.communities) :
              /\ commOut.val.communities[i] # None
              /\ commOut.val.communities[i] # <<>>
        /\ commOut.val.communities = Kept(commIn.communities)

C19_Witness ==
    /\ commIn.communities = <<<<"d", "i", "c">>, <<>>, <<"l", "e", "x">>>>
    /\ commOut.err = ""
    /\ commOut.val.communities = <<<<"d", "i", "c">>, <<"l", "e", "x">>>>

(***************************************************************************)
(* Claims about Api.get_github_release_info (SpecRelease).                 *)
(***************************************************************************)
\* the repository has no release
NoRelease == relIn.latest = <<>>

\* the release viewed mentions no DOI of the archive
NoDoiMention ==
    /\ relIn.view.ok
    /\ \A i \in 1..Len(relIn.view.text) : doi_end(relIn.view.text, i) = 0

AllAbsent ==
    /\ relOut.tag = None
    /\ relOut.doi = None
    /\ relOut.cit = None
    /\ relOut.bib = NoBib

\* C20 as claimed: when the repository has no release or the release
\* description mentions no DOI, a quadruple of four absent fields is
\* returned.
C20_AllAbsentWithoutReleaseOrDoi ==
    (relOut.err # "NotCalled" /\ (NoRelease \/ NoDoiMention)) =>
        (relOut.err = "" /\ AllAbsent)

\* C20, amended: a call that returns for a repository without a release (no
\* tag being passed) returns four absent fields; a call that returns for a
\* release whose description mentions no DOI returns the doi, the citation
\* and the bib entry absent and, as tag, the tag passed or else the one found
\* in the release list, and makes no request to the archive.
C20_AbsentButTheTag ==
    relOut.err = "" =>
        /\ (NoRelease /\ ~Truthy(relIn.tag)) => AllAbsent
        /\ (NoDoiMention /\ ~(NoRelease /\ ~Truthy(relIn.tag))) =>
              /\ relOut.tag # None
              /\ relOut.tag = IF Truthy(relIn.tag) THEN relIn.tag
                              ELSE version_search(relIn.latest)
              /\ relOut.doi = None
              /\ relOut.cit = None
              /\ relOut.bib = NoBib
              /\ relOut.requests = 0

C20_Witness ==
    /\ relIn.tag = None
    /\ relIn.latest = S_tag \o <<" ", "L">>
    /\ NoDoiMention
    /\ relOut.err = ""
    /\ relOut.tag = S_tag
    /\ relOut.doi = None

(***************************************************************************)
(* Claims about the scope of the community-id cache (SpecApi).  The cache  *)
(* is Api.__communities__, a dict of the class: the instances share it.    *)
(***************************************************************************)
\* C21: a community id resolved through one Api instance is not visible to
\* another: a records call naming a community through an instance that has
\* issued no resolution for it (the one resolution so far was issued by the
\* call before, through another instance) issues a resolution request.
C21_CachePerInstance ==
    [][\A c \in CommunityNames :
          (/\ apiIn.op = "records"
           /\ apiIn.community = c
           /\ resolves[c] = 1
           /\ Lookups(requests) = 1
           /\ apiIn'.op = "records"
           /\ apiIn'.community = c
           /\ apiIn'.api # apiIn.api)
              => Lookups(requests') = 1]_vars

(***************************************************************************)
(* Claims about Record.download_dataset (SpecDataset).                     *)
(***************************************************************************)
\* C22: whenever download_dataset has been left - with a dataset, with None,
\* or with an exception of download, of the locator or of the condition -
\* the scratch directory it made no longer exists.
C22_ScratchRemovedOnEveryExit ==
    /\ dd.pc = "done" => (~dest.exists /\ dest.entries = {})
    /\ dd.pc = "downloading" => dest.exists

C22_Witness ==
    /\ dd.pc = "done"
    /\ dd.err = "ConditionError"
    /\ dd.scratch.exists
    /\ dd.scratch.entries # {}
    /\ ~dest.exists

(***************************************************************************)
(* Claims about a generator a failure has left (SpecPages).                *)
(***************************************************************************)
\* C23: once a transport failure has propagated out of the generator of
\* iter_records, every further pull from it ends without a record and
\* issues no request; a page is only requested again through a cursor of
\* the caller's or a new query, both of which start before page 1.
C23_FinishedAfterFailure ==
    [][(/\ cur.owner = "generator"
        /\ \E i \in 1..Len(calls) : calls[i].err \in Failures)
          => /\ cur'.owner = "generator" =>
                   /\ pulled'.err = "StopIteration"
                   /\ requests' = requests
                   /\ calls' = calls
                   /\ yielded' = yielded
                   /\ cur' = cur
             /\ cur'.owner # "generator" =>
                   (requests' = <<>> /\ calls' = <<>> /\ cur'.page = 0)]_vars

C23_Witness ==
    /\ cur.owner = "generator"
    /\ gen.pc = "finished"
    /\ calls # <<>>
    /\ calls[Len(calls)].err = "HTTPError"
    /\ calls[Len(calls)].page = 2
    /\ cur.page = 1
    /\ pulled.err = "StopIteration"

(***************************************************************************)
(* Claims about the destination after a failed download (SpecDownload).    *)
(***************************************************************************)
\* C24: when download fails with ValueError (no downloadable resources) on
\* a destination that did not exist, the destination exists and is empty
\* after the failure, and no fetch has been issued.
C24_DestinationCreatedBeforeFailure ==
    (dl.pc = "done" /\ dl.err = "ValueError" /\ ~dl.dest0.exists) =>
        /\ dest.exists
        /\ dest.entries = {}
        /\ dl.log = <<>>

C24_Witness ==
    /\ dl.pc = "done"
    /\ dl.err = "ValueError"
    /\ dl.rec.download_urls = <<>>
    /\ ~dl.dest0.exists
    /\ dest.exists
    /\ dest.entries = {}
    /\ dl.log = <<>>

=============================================================================
